---------------------------- MODULE Spec2Model ----------------------------
(***************************************************************************)
(* vite-multi-spa: the dev-server request router (redirect patterns, page  *)
(* resolution, page-relative assets) and the build-time output flattener.  *)
(*                                                                         *)
(* A JavaScript string is a sequence of one-character strings.  A value    *)
(* that may be null/undefined is a sequence of length 0 (Null) or          *)
(* 1 (Some(x)).                                                            *)
(***************************************************************************)
EXTENDS Naturals, Sequences, FiniteSets

VARIABLES
    pagesRootOpt,   \* options.pagesRoot (Null when not given)
    redirectsOpt,   \* Object.entries(options.redirects): <<[pattern, target], ...>>
    files,          \* the regular files on disk (absolute, normalised paths)
    req,            \* the request the middleware has just handled, or Idle
    probe,          \* the last call of one compiled redirect matcher
    env,            \* this.environment.name of the build
    bundle          \* the output bundle handed to generateBundle

vars == <<pagesRootOpt, redirectsOpt, files, req, probe, env, bundle>>

Null == <<>>
Some(x) == <<x>>

(***************************************************************************)
(* Bounds of the model.                                                    *)
(***************************************************************************)
MaxPatLen == 4      \* every pattern over PatChars up to this length is tried
MaxUrlLen == 3      \* every path over UrlChars up to this length is tried
MaxFiles == 3       \* files that exist on disk at the same time
MaxBundle == 2      \* entries of an output bundle

(***************************************************************************)
(* Strings.                                                                *)
(***************************************************************************)
LowerChars == {"a","b","c","d","e","f","g","h","i","j","k","l","m","n","o",
               "p","q","r","s","t","u","v","w","x","y","z"}
UpperChars == {"A","B","C","D","E","F","G","H","I","J","K","L","M","N","O",
               "P","Q","R","S","T","U","V","W","X","Y","Z"}
DigitChars == {"0","1","2","3","4","5","6","7","8","9"}

\* \w of a JavaScript regular expression
IsWordChar(c) == c \in LowerChars \cup UpperChars \cup DigitChars \cup {"_"}

\* [a-zA-Z_]
IsIdentStart(c) == c \in LowerChars \cup UpperChars \cup {"_"}

Drop(s, n) == IF n >= Len(s) THEN <<>> ELSE SubSeq(s, n + 1, Len(s))

Take(s, n) == IF n >= Len(s) THEN s ELSE SubSeq(s, 1, n)

StartsWith(s, p) == Len(p) <= Len(s) /\ SubSeq(s, 1, Len(p)) = p

EndsWith(s, p) ==
    Len(p) <= Len(s) /\ SubSeq(s, Len(s) - Len(p) + 1, Len(s)) = p

\* String.prototype.indexOf, 1-based; 0 when absent
IndexOf(s, c) ==
    IF \E i \in 1..Len(s) : s[i] = c
    THEN CHOOSE i \in 1..Len(s) : s[i] = c /\ \A j \in 1..(i - 1) : s[j] # c
    ELSE 0

\* String.prototype.lastIndexOf, 1-based; 0 when absent
LastIndexOf(s, c) ==
    IF \E i \in 1..Len(s) : s[i] = c
    THEN CHOOSE i \in 1..Len(s) : s[i] = c /\ \A j \in (i + 1)..Len(s) : s[j] # c
    ELSE 0

\* the first position of s holding one of cs; Len(s) + 1 when none does
FirstOf(s, cs) ==
    IF \E i \in 1..Len(s) : s[i] \in cs
    THEN CHOOSE i \in 1..Len(s) :
             s[i] \in cs /\ \A j \in 1..(i - 1) : s[j] \notin cs
    ELSE Len(s) + 1

\* String.prototype.split on a one-character separator
RECURSIVE Split(_, _)
Split(s, c) ==
    LET i == IndexOf(s, c)
    IN  IF i = 0 THEN <<s>>
        ELSE <<SubSeq(s, 1, i - 1)>> \o Split(Drop(s, i), c)

\* Array.prototype.join
RECURSIVE Join(_, _)
Join(parts, sep) ==
    IF parts = <<>> THEN <<>>
    ELSE IF Len(parts) = 1 THEN parts[1]
    ELSE parts[1] \o sep \o Join(Tail(parts), sep)

\* every sequence over alphabet of length at most n
RECURSIVE SeqsUpTo(_, _)
SeqsUpTo(alphabet, n) ==
    IF n = 0 THEN {<<>>}
    ELSE LET shorter == SeqsUpTo(alphabet, n - 1)
         IN  shorter \cup {Append(s, c) : s \in shorter, c \in alphabet}

(***************************************************************************)
(* node:path (posix) and vite's normalizePath.                             *)
(***************************************************************************)
\* normalizeString: drop "" and "." segments, let ".." pop a segment
RECURSIVE NormalizeSegments(_, _, _)
NormalizeSegments(segs, acc, allowAboveRoot) ==
    IF segs = <<>> THEN acc
    ELSE LET s == Head(segs)
             rest == Tail(segs)
         IN  IF s = <<>> \/ s = <<".">>
             THEN NormalizeSegments(rest, acc, allowAboveRoot)
             ELSE IF s = <<".", ".">>
             THEN IF acc # <<>> /\ acc[Len(acc)] # <<".", ".">>
                  THEN NormalizeSegments(rest, SubSeq(acc, 1, Len(acc) - 1),
                                         allowAboveRoot)
                  ELSE IF allowAboveRoot
                  THEN NormalizeSegments(rest, Append(acc, s), allowAboveRoot)
                  ELSE NormalizeSegments(rest, acc, allowAboveRoot)
             ELSE NormalizeSegments(rest, Append(acc, s), allowAboveRoot)

\* path.posix.normalize
PosixNormalize(p) ==
    IF p = <<>> THEN <<".">>
    ELSE LET isAbsolute == p[1] = "/"
             trailing == p[Len(p)] = "/"
             body == Join(NormalizeSegments(Split(p, "/"), <<>>, ~isAbsolute),
                          <<"/">>)
         IN  IF body = <<>>
             THEN IF isAbsolute THEN <<"/">>
                  ELSE IF trailing THEN <<".", "/">> ELSE <<".">>
             ELSE (IF isAbsolute THEN <<"/">> ELSE <<>>) \o body
                  \o (IF trailing THEN <<"/">> ELSE <<>>)

\* vite's normalizePath on a posix host: path.posix.normalize
normalizePath(id) == PosixNormalize(id)

\* path.join: the non-empty arguments joined by "/" and normalised
PathJoin(parts) ==
    PosixNormalize(Join(SelectSeq(parts, LAMBDA x : x # <<>>), <<"/">>))

(***************************************************************************)
(* Pattern compilation: options.redirects entries -> matchers.             *)
(***************************************************************************)
\* the characters pattern.replace(/[.+?^${}()|[\]\\]/g, '\\$&') escapes
RegexMetaChars == {".", "+", "?", "^", "$", "{", "}", "(", ")", "|", "[", "]", "\\"}

\* characters "." of a regular expression does not match
LineTerminators == {"\n", "\r"}

RECURSIVE EscapeRegex(_)
EscapeRegex(pattern) ==
    IF pattern = <<>> THEN <<>>
    ELSE (IF Head(pattern) \in RegexMetaChars
          THEN <<"\\", Head(pattern)>>
          ELSE <<Head(pattern)>>) \o EscapeRegex(Tail(pattern))

\* the length of the run of \w characters of s that starts at i
RECURSIVE WordRun(_, _)
WordRun(s, i) ==
    IF i <= Len(s) /\ IsWordChar(s[i]) THEN 1 + WordRun(s, i + 1) ELSE 0

\* whether tokenRegex = /(\*)|(:[a-zA-Z_]\w*)/g matches at position i of s
TokenAt(s, i) ==
    \/ s[i] = "*"
    \/ s[i] = ":" /\ i < Len(s) /\ IsIdentStart(s[i + 1])

\* tokenRegex.exec: the first match at or after pos; 0 when there is none
NextToken(s, pos) ==
    IF \E i \in pos..Len(s) : TokenAt(s, i)
    THEN CHOOSE i \in pos..Len(s) :
             TokenAt(s, i) /\ \A j \in pos..(i - 1) : ~TokenAt(s, j)
    ELSE 0

\* the atoms of a regular expression
LitAtom(c) == [t |-> "lit", c |-> c, n |-> <<>>]
AnyAtom == [t |-> "any", c |-> "", n |-> <<>>]
BolAtom == [t |-> "bol", c |-> "", n |-> <<>>]
EolAtom == [t |-> "eol", c |-> "", n |-> <<>>]
SplatAtom == [t |-> "splat", c |-> "", n |-> <<"s", "p", "l", "a", "t">>]
PlaceholderAtom(name) == [t |-> "ph", c |-> "", n |-> name]

\* new RegExp on a slice of the escaped pattern: "\c" is the character c,
\* "." is any character, every other character (of those that reach it)
\* is itself
RECURSIVE LiteralAtoms(_)
LiteralAtoms(src) ==
    IF src = <<>> THEN <<>>
    ELSE IF src[1] = "\\" /\ Len(src) >= 2
    THEN <<LitAtom(src[2])>> \o LiteralAtoms(Drop(src, 2))
    ELSE IF src[1] = "."
    THEN <<AnyAtom>> \o LiteralAtoms(Tail(src))
    ELSE <<LitAtom(src[1])>> \o LiteralAtoms(Tail(src))

\* the while loop over tokenRegex.exec(escaped), from lastIndex on
RECURSIVE RegexBody(_, _)
RegexBody(escaped, lastIndex) ==
    LET index == NextToken(escaped, lastIndex)
    IN  IF index = 0
        THEN LiteralAtoms(SubSeq(escaped, lastIndex, Len(escaped)))
        ELSE LET isSplat == escaped[index] = "*"
                 nameLen == IF isSplat THEN 0 ELSE WordRun(escaped, index + 1)
                 name == SubSeq(escaped, index + 1, index + nameLen)
             IN  LiteralAtoms(SubSeq(escaped, lastIndex, index - 1))
                 \o <<IF isSplat THEN SplatAtom ELSE PlaceholderAtom(name)>>
                 \o RegexBody(escaped, index + 1 + nameLen)

\* a faulty variant: the pattern reaches the expression unescaped
RegexOfMutNoEscape(pattern) == <<BolAtom>> \o RegexBody(pattern, 1) \o <<EolAtom>>

\* regexStr = '^' + ... + '$' of the escaped pattern
RegexOf(pattern) ==
    <<BolAtom>> \o RegexBody(EscapeRegex(pattern), 1) \o <<EolAtom>>

\* the names of the capture groups, in the order of the regular expression
GroupNames(atoms) ==
    LET gs == SelectSeq(atoms, LAMBDA a : a.t \in {"splat", "ph"})
    IN  [i \in 1..Len(gs) |-> gs[i].n]

\* new RegExp throws a SyntaxError on a duplicate capture group name
Compiles(pattern) ==
    LET ns == GroupNames(RegexOf(pattern))
    IN  \A i, j \in 1..Len(ns) : i # j => ns[i] # ns[j]

(***************************************************************************)
(* String.prototype.match with the compiled expression (backtracking,      *)
(* greedy quantifiers).                                                    *)
(***************************************************************************)
NoMatch == [ok |-> FALSE, groups |-> <<>>]

\* the longest run from j of characters a group may take
RECURSIVE GroupRun(_, _, _)
GroupRun(a, s, j) ==
    IF j > Len(s) THEN 0
    ELSE IF s[j] \in LineTerminators /\ a.t = "splat" THEN 0
    ELSE IF s[j] = "/" /\ a.t = "ph" THEN 0
    ELSE 1 + GroupRun(a, s, j + 1)

RECURSIVE MatchAt(_, _, _, _)
RECURSIVE TryLen(_, _, _, _, _, _)

MatchAt(atoms, i, s, j) ==
    IF i > Len(atoms) THEN [ok |-> TRUE, groups |-> <<>>]
    ELSE LET a == atoms[i]
         IN  CASE a.t = "bol" ->
                    IF j = 1 THEN MatchAt(atoms, i + 1, s, j) ELSE NoMatch
               [] a.t = "eol" ->
                    IF j = Len(s) + 1 THEN MatchAt(atoms, i + 1, s, j)
                    ELSE NoMatch
               [] a.t = "lit" ->
                    IF j <= Len(s) /\ s[j] = a.c
                    THEN MatchAt(atoms, i + 1, s, j + 1) ELSE NoMatch
               [] a.t = "any" ->
                    IF j <= Len(s) /\ s[j] \notin LineTerminators
                    THEN MatchAt(atoms, i + 1, s, j + 1) ELSE NoMatch
               [] a.t = "splat" ->      \* (?<splat>.*)
                    TryLen(atoms, i, s, j, GroupRun(a, s, j), 0)
               [] a.t = "ph" ->         \* (?<name>[^/]+)
                    TryLen(atoms, i, s, j, GroupRun(a, s, j), 1)

\* a greedy group: the longest length first, down to min
TryLen(atoms, i, s, j, k, min) ==
    IF k < min THEN NoMatch
    ELSE LET r == MatchAt(atoms, i + 1, s, j + k)
         IN  IF r.ok
             THEN [ok |-> TRUE,
                   groups |-> <<[name |-> atoms[i].n,
                                 value |-> SubSeq(s, j, j + k - 1)]>>
                              \o r.groups]
             ELSE IF k = 0 THEN NoMatch
             ELSE TryLen(atoms, i, s, j, k - 1, min)

\* url.match(regex): the first start position at which the expression matches
RECURSIVE SearchFrom(_, _, _)
SearchFrom(atoms, s, start) ==
    IF start > Len(s) + 1 THEN NoMatch
    ELSE LET r == MatchAt(atoms, 1, s, start)
         IN  IF r.ok THEN r ELSE SearchFrom(atoms, s, start + 1)

RegexMatch(atoms, s) == SearchFrom(atoms, s, 1)

(***************************************************************************)
(* Substitution of the captures into the target.                           *)
(***************************************************************************)
\* a replacement string: $$, $&, $` and $' are special (the expression has
\* no capture groups, so $1 and $<name> are plain text)
RECURSIVE ExpandReplacement(_, _, _, _)
ExpandReplacement(value, matched, before, after) ==
    IF value = <<>> THEN <<>>
    ELSE IF value[1] = "$" /\ Len(value) >= 2 /\ value[2] \in {"$", "&", "`", "'"}
    THEN (CASE value[2] = "$" -> <<"$">>
            [] value[2] = "&" -> matched
            [] value[2] = "`" -> before
            [] value[2] = "'" -> after)
         \o ExpandReplacement(Drop(value, 2), matched, before, after)
    ELSE <<value[1]>> \o ExpandReplacement(Tail(value), matched, before, after)

\* whether new RegExp(`:${name}\\b`) matches at position i of s
PlaceholderAt(s, i, name) ==
    /\ i + Len(name) <= Len(s)
    /\ SubSeq(s, i, i + Len(name)) = <<":">> \o name
    /\ (i + Len(name) = Len(s) \/ ~IsWordChar(s[i + Len(name) + 1]))

\* result.replace(new RegExp(`:${name}\\b`, 'g'), value), from position i on
RECURSIVE ReplaceFrom(_, _, _, _)
ReplaceFrom(s, i, name, value) ==
    IF i > Len(s) THEN <<>>
    ELSE IF PlaceholderAt(s, i, name)
    THEN ExpandReplacement(value, <<":">> \o name, SubSeq(s, 1, i - 1),
                           Drop(s, i + Len(name)))
         \o ReplaceFrom(s, i + Len(name) + 1, name, value)
    ELSE <<s[i]>> \o ReplaceFrom(s, i + 1, name, value)

\* the for loop over Object.entries(match.groups)
RECURSIVE SubstituteGroups(_, _)
SubstituteGroups(result, groups) ==
    IF groups = <<>> THEN result
    ELSE SubstituteGroups(
             ReplaceFrom(result, 1, Head(groups).name, Head(groups).value),
             Tail(groups))

\* one entry of redirects applied to url: the target before normalizePath,
\* Null when the pattern does not match
MatchRule(rule, url) ==
    LET m == RegexMatch(RegexOf(rule.pattern), url)
    IN  IF ~m.ok THEN Null ELSE Some(SubstituteGroups(rule.target, m.groups))

\* one entry of redirects applied to url, as the closure returns it
Matcher(rule, url) ==
    LET r == MatchRule(rule, url)
    IN  IF r = Null THEN Null ELSE Some(normalizePath(r[1]))

(***************************************************************************)
(* Plugin construction and the filesystem.                                 *)
(***************************************************************************)
DotHtml == <<".", "h", "t", "m", "l">>
IndexHtml == <<"i", "n", "d", "e", "x">> \o DotHtml
SrcPages == <<"s", "r", "c", "/", "p", "a", "g", "e", "s">>
VitePrefix == <<"/", "@", "v", "i", "t", "e", "/">>

\* config.root, as configResolved stores it
root == <<"/", "r">>

\* a JavaScript string used as a condition
TruthyString(opt) == opt # Null /\ opt[1] # <<>>

\* .replace(/(^\/|\/$)/g, '')
StripSlashes(s) ==
    LET a == IF StartsWith(s, <<"/">>) THEN Tail(s) ELSE s
    IN  IF EndsWith(a, <<"/">>) THEN SubSeq(a, 1, Len(a) - 1) ELSE a

pagesRoot ==
    IF TruthyString(pagesRootOpt)
    THEN StripSlashes(normalizePath(pagesRootOpt[1]))
    ELSE SrcPages

\* the compiled redirects hold one matcher per entry, in the entries' order
\* (Object.entries moves integer-like keys first; such a pattern has no "/"
\* and accepts no request path)
redirects == redirectsOpt

\* a directory exists when it holds a file (the root always does)
IsDirectory(d) ==
    \/ d = <<"/">>
    \/ d = root
    \/ \E f \in files : StartsWith(f, d \o <<"/">>)

\* fs.existsSync of a normalised absolute path
existsSync(p) ==
    LET q == IF Len(p) > 1 /\ p[Len(p)] = "/" THEN SubSeq(p, 1, Len(p) - 1)
             ELSE p
    IN  (q = p /\ q \in files) \/ IsDirectory(q)

(***************************************************************************)
(* Page Resolver and Redirect Resolver.                                    *)
(***************************************************************************)
\* a faulty variant: <candidate>.html is probed for every candidate
resolvePageUrlMutHtmlOnly(url) ==
    LET pageURL == <<"/">> \o pagesRoot \o url
    IN  IF existsSync(PathJoin(<<root, pageURL \o DotHtml>>))
        THEN Some(pageURL) ELSE Null

\* the PageURL of a logical path, Null when its file is not on disk
resolvePageUrl(url) ==
    LET pageURL == <<"/">> \o pagesRoot \o url
    IN  IF EndsWith(pageURL, <<"/">>)
        THEN IF existsSync(PathJoin(<<root, pageURL, IndexHtml>>))
             THEN Some(pageURL) ELSE Null
        ELSE IF existsSync(PathJoin(<<root, pageURL \o DotHtml>>))
             THEN Some(pageURL) ELSE Null

\* .replace(/\.html$/, '')
StripHtml(s) ==
    IF EndsWith(s, DotHtml) THEN SubSeq(s, 1, Len(s) - Len(DotHtml)) ELSE s

\* a faulty variant: query text is cut off the target before the lookup
RedirectCandidateMutStripQuery(target) ==
    StripHtml(IF StartsWith(target, <<"/">>)
              THEN Take(target, FirstOf(target, {"?"}) - 1)
              ELSE <<"/">> \o Take(target, FirstOf(target, {"?"}) - 1))

\* the page candidate resolveRedirect derives from a matcher's target
RedirectCandidate(target) ==
    StripHtml(IF StartsWith(target, <<"/">>) THEN target
              ELSE <<"/">> \o target)

\* a faulty variant: a rule whose page is missing falls through to the next
RECURSIVE RedirectFromMutFallThrough(_, _)
RedirectFromMutFallThrough(i, url) ==
    IF i > Len(redirects) THEN [result |-> Null, consulted |-> <<>>]
    ELSE LET target == Matcher(redirects[i], url)
             page == IF TruthyString(target)
                     THEN resolvePageUrl(RedirectCandidate(target[1]))
                     ELSE Null
         IN  IF page # Null
             THEN [result |-> page, consulted |-> <<i>>]
             ELSE LET r == RedirectFromMutFallThrough(i + 1, url)
                  IN  [result |-> r.result, consulted |-> <<i>> \o r.consulted]

\* the for loop of resolveRedirect from entry i on: its result and the
\* entries whose matcher it called
RECURSIVE RedirectFrom(_, _)
RedirectFrom(i, url) ==
    IF i > Len(redirects) THEN [result |-> Null, consulted |-> <<>>]
    ELSE LET target == Matcher(redirects[i], url)
         IN  IF TruthyString(target)
             THEN [result |-> resolvePageUrl(RedirectCandidate(target[1])),
                   consulted |-> <<i>>]
             ELSE LET r == RedirectFrom(i + 1, url)
                  IN  [result |-> r.result, consulted |-> <<i>> \o r.consulted]

resolveRedirect(url) == RedirectFrom(1, url).result

(***************************************************************************)
(* new URL(referer): only what the router reads, the pathname.  Dot        *)
(* segments and percent-encoding are not modelled.                         *)
(***************************************************************************)
SchemeChars == LowerChars \cup UpperChars \cup DigitChars \cup {"+", "-", "."}

ParseURL(s) ==
    LET colon == IndexOf(s, ":")
        hasScheme == /\ colon >= 2
                     /\ s[1] \in LowerChars \cup UpperChars
                     /\ \A i \in 2..(colon - 1) : s[i] \in SchemeChars
        rest == Drop(s, colon)
        afterSlashes == Drop(rest, 2)
        hostEnd == FirstOf(afterSlashes, {"/", "?", "#"})
        tail == Drop(afterSlashes, hostEnd - 1)
        path == Take(tail, FirstOf(tail, {"?", "#"}) - 1)
    IN  IF ~hasScheme \/ ~StartsWith(rest, <<"/", "/">>) \/ hostEnd = 1
        THEN [ok |-> FALSE, pathname |-> <<>>]
        ELSE [ok |-> TRUE,
              pathname |-> IF path = <<>> THEN <<"/">> ELSE path]

(***************************************************************************)
(* The middleware of configureServer.                                      *)
(***************************************************************************)
Idle == [st |-> "idle", in |-> Null, url |-> <<>>, nexts |-> 0,
         threw |-> FALSE, originalUrlDeleted |-> FALSE, lookupPath |-> Null,
         redirectUrl |-> Null, consulted |-> <<>>, directLookup |-> FALSE,
         pageUrl |-> Null, assetUrl |-> Null]

\* (query ? '?' + query : '')
QuerySuffix(query) == IF query # <<>> THEN <<"?">> \o query ELSE <<>>

\* req.url = <to> + (query ? '?' + query : ''); delete req.originalUrl
Rewrite(r, to, query) ==
    [r EXCEPT !.url = to \o QuerySuffix(query), !.originalUrlDeleted = TRUE]

\* the document branch after resolveRedirect found nothing
DocumentPage(seen, query, pageUrl) ==
    IF pageUrl # Null
    THEN Rewrite([seen EXCEPT !.directLookup = TRUE, !.pageUrl = pageUrl],
                 pageUrl[1], query)
    ELSE [seen EXCEPT !.directLookup = TRUE]

\* a faulty variant: no return after the redirect's rewrite
DocumentRedirectMutNoReturn(seen, url, query, red) ==
    IF red.result # Null
    THEN DocumentPage(
             Rewrite([seen EXCEPT !.redirectUrl = red.result,
                                  !.consulted = red.consulted],
                     red.result[1], query),
             query, resolvePageUrl(url))
    ELSE DocumentPage([seen EXCEPT !.consulted = red.consulted], query,
                      resolvePageUrl(url))

\* the document branch after resolveRedirect(url) returned red
DocumentRedirect(seen, url, query, red) ==
    IF red.result # Null
    THEN Rewrite([seen EXCEPT !.redirectUrl = red.result,
                              !.consulted = red.consulted],
                 red.result[1], query)
    ELSE DocumentPage([seen EXCEPT !.consulted = red.consulted], query,
                      resolvePageUrl(url))

\* the document branch, with the next() that follows it
DocumentBranch(base, url, query) ==
    DocumentRedirect([base EXCEPT !.lookupPath = Some(url), !.nexts = 1],
                     url, query, RedirectFrom(1, url))

\* a faulty variant: the original path is never looked up
OriginalExistsMutNever(url) == FALSE

\* fs.existsSync(path.join(root, url)) for the request's own path
OriginalExists(url) == existsSync(PathJoin(<<root, url>>))

\* pageUrl.slice(0, pageUrl.lastIndexOf('/')) + url
AssetUrl(pageUrl, url) ==
    Take(pageUrl, LastIndexOf(pageUrl, "/") - 1) \o url

\* the inner if: the asset is served when it is on disk
AssetFound(seen, query, assetUrl) ==
    IF existsSync(PathJoin(<<root, assetUrl>>))
    THEN Rewrite([seen EXCEPT !.assetUrl = Some(assetUrl)], assetUrl, query)
    ELSE [seen EXCEPT !.assetUrl = Some(assetUrl)]

\* if (pageUrl && !fs.existsSync(path.join(root, url)))
AssetBranch(seen, url, query, pageUrl) ==
    IF pageUrl # Null /\ ~OriginalExists(url)
    THEN AssetFound(seen, query, AssetUrl(pageUrl[1], url))
    ELSE seen

\* resolveRedirect(referer.pathname) || resolvePageUrl(referer.pathname)
RefererPage(seen, url, query, pathname, red) ==
    IF red.result # Null
    THEN AssetBranch([seen EXCEPT !.redirectUrl = red.result,
                                  !.consulted = red.consulted],
                     url, query, red.result)
    ELSE AssetBranch([seen EXCEPT !.consulted = red.consulted,
                                  !.directLookup = TRUE,
                                  !.pageUrl = resolvePageUrl(pathname)],
                     url, query, resolvePageUrl(pathname))

\* new URL(req.headers['referer']) throws a TypeError on an invalid URL
WithReferer(base, url, query, referer) ==
    IF ~referer.ok
    THEN [base EXCEPT !.threw = TRUE]
    ELSE RefererPage([base EXCEPT !.lookupPath = Some(referer.pathname),
                                  !.nexts = 1],
                     url, query, referer.pathname,
                     RedirectFrom(1, referer.pathname))

\* the branch of a request with a destination and a referer
SubResourceBranch(base, url, query, refererHeader) ==
    IF StartsWith(url, VitePrefix)
    THEN [base EXCEPT !.nexts = 1]
    ELSE WithReferer(base, url, query, ParseURL(refererHeader))

\* what the middleware leaves of a request r = [url, dest, referer]
Handled(r) ==
    LET parts == Split(r.url, "?")
        url == parts[1]
        query == IF Len(parts) >= 2 THEN parts[2] ELSE <<>>
        base == [Idle EXCEPT !.st = "done", !.in = Some(r), !.url = r.url]
    IN  IF r.dest = Some("document")
        THEN DocumentBranch(base, url, query)
        ELSE IF r.dest # Null /\ TruthyString(r.referer)
        THEN SubResourceBranch(base, url, query, r.referer[1])
        ELSE [base EXCEPT !.nexts = 1]

(***************************************************************************)
(* generateBundle of the build plugin.                                     *)
(***************************************************************************)
\* a faulty variant: slice(pagesRoot.length) keeps the separator
FlattenedNameMutNoSeparator(file) ==
    IF file.type = "asset" /\ StartsWith(file.fileName, pagesRoot \o <<"/">>)
    THEN Drop(file.fileName, Len(pagesRoot))
    ELSE file.fileName

\* file.fileName after the loop body; file is [key, type, fileName]
FlattenedName(file) ==
    IF file.type = "asset" /\ StartsWith(file.fileName, pagesRoot \o <<"/">>)
    THEN Drop(file.fileName, Len(pagesRoot) + 1)
    ELSE file.fileName

(***************************************************************************)
(* The dev server: files come and go, requests are handled one at a time.  *)
(***************************************************************************)
PagesRootOptions == {Null, Some(<<"/", "p", "g", "/">>)}

RedirectConfigs ==
    { <<>>,
      <<[pattern |-> <<"/", "x", "/", "*">>,
       target |-> <<"/", "c", ".", "h", "t", "m", "l">>],
      [pattern |-> <<"/", "x", "/", ":", "a">>,
       target |-> <<"/", "b">>],
      [pattern |-> <<"/", "c", "/">>,
       target |-> <<"/", "b">>]>>,
      <<[pattern |-> <<"/", "u", "/", ":", "i", "d">>,
       target |-> <<"/", "u", "p", "?", "i", "d", "=", ":", "i", "d">>]>>,
      <<[pattern |-> <<"/", "e", "*">>,
       target |-> <<":", "s", "p", "l", "a", "t">>],
      [pattern |-> <<"/", "e">>,
       target |-> <<"b">>],
      [pattern |-> <<"/", "o">>,
       target |-> <<"c", "/">>]>> }

\* paths below the pages root, and paths below the project root
PageFileNames == {<<"/", "c", ".", "h", "t", "m", "l">>,
                  <<"/", "c", "/", "i", "n", "d", "e", "x", ".", "h", "t", "m", "l">>,
                  <<"/", "c", "/", "l", ".", "j", "s">>,
                  <<"/", "l", ".", "j", "s">>,
                  <<"/", "b", ".", "h", "t", "m", "l">>,
                  <<"/", "u", "p", ".", "h", "t", "m", "l">>,
                  <<"/", "u", "p", "?", "i", "d", "=", "4", "2", ".", "h", "t", "m", "l">>}

TopFileNames == {<<"/", "l", ".", "j", "s">>}

FileUniverse ==
    {root \o <<"/">> \o pagesRoot \o n : n \in PageFileNames}
    \cup {root \o n : n \in TopFileNames}

RequestUrls == {<<"/", "c">>,
                <<"/", "c", "/">>,
                <<"/", "c", "?", "q">>,
                <<"/", "c", "?", "q", "?", "r">>,
                <<"/", "x", "/", "1">>,
                <<"/", "u", "/", "4", "2">>,
                <<"/", "l", ".", "j", "s">>,
                <<"/", "l", ".", "j", "s", "?", "v">>,
                <<"/", "@", "v", "i", "t", "e", "/", "c">>,
                <<"/", "e">>,
                <<"/", "o">>,
                <<"/", "n">>}

RequestDests == {Null, Some("document"), Some("script")}

RequestReferers == {Null, Some(<<"h", "t", "t", "p", ":", "/", "/", "h", "/", "c">>),
                    Some(<<"h", "t", "t", "p", ":", "/", "/", "h", "/", "c", "/", "?", "q">>),
                    Some(<<"h", "t", "t", "p", ":", "/", "/", "h", "/", "x", "/", "1">>),
                    Some(<<"/", "c">>)}

Requests == [url : RequestUrls, dest : RequestDests, referer : RequestReferers]

NoProbe == [called |-> FALSE, url |-> <<>>, groups |-> Null,
            substituted |-> Null, target |-> Null]

Init ==
    /\ pagesRootOpt \in PagesRootOptions
    /\ redirectsOpt \in RedirectConfigs
    /\ files = {}
    /\ req = Idle
    /\ probe = NoProbe
    /\ env = "client"
    /\ bundle = [pc |-> "rendered", files |-> {}]

AddFile(f) ==
    /\ req.st = "idle"
    /\ f \notin files
    /\ Cardinality(files) < MaxFiles
    /\ files' = files \cup {f}
    /\ UNCHANGED <<pagesRootOpt, redirectsOpt, req, probe, env, bundle>>

RemoveFile(f) ==
    /\ req.st = "idle"
    /\ f \in files
    /\ files' = files \ {f}
    /\ UNCHANGED <<pagesRootOpt, redirectsOpt, req, probe, env, bundle>>

\* the middleware runs on a request, synchronously and to its end
Request(r) ==
    /\ req.st = "idle"
    /\ req' = Handled(r)
    /\ UNCHANGED <<pagesRootOpt, redirectsOpt, files, probe, env, bundle>>

\* the request leaves the middleware; the next one is considered
Finish ==
    /\ req.st = "done"
    /\ req' = Idle
    /\ UNCHANGED <<pagesRootOpt, redirectsOpt, files, probe, env, bundle>>

Next ==
    \/ \E f \in FileUniverse : AddFile(f)
    \/ \E f \in FileUniverse : RemoveFile(f)
    \/ \E r \in Requests : Request(r)
    \/ Finish

Spec == Init /\ [][Next]_vars

(***************************************************************************)
(* One compiled matcher, called on every short path.                       *)
(***************************************************************************)
PatChars == {"/", "a", "*", ":", "."}

UrlChars == {"/", "a", "."}

ProbePatterns ==
    {p \in SeqsUpTo(PatChars, MaxPatLen) \cup {<<"/", ":", "a", "/", ":", "b">>, <<"/", "a", ".", "*", "/", ":", "b">>} : Compiles(p)}

ProbeTargets == {<<"/", "t">>, <<"/", ":", "a">>, <<":", "s", "p", "l", "a", "t", "/", ":", "a", "b">>, <<"/", ":", "b", "/", ":", "a", ":", "b">>}

ProbeUrls == SeqsUpTo(UrlChars, MaxUrlLen) \cup {<<"/", ":", "b", "/", "x">>, <<"/", "a", ".", "a", "/", "a", "/", "b">>}

MatchInit ==
    /\ pagesRootOpt = Null
    /\ redirectsOpt \in {<<[pattern |-> p, target |-> t]>> :
                            p \in ProbePatterns, t \in ProbeTargets}
    /\ files = {}
    /\ req = Idle
    /\ probe \in {[NoProbe EXCEPT !.url = u] : u \in ProbeUrls}
    /\ env = "client"
    /\ bundle = [pc |-> "rendered", files |-> {}]

\* redirects[0](url)
CallMatcher ==
    LET url == probe.url
        m == RegexMatch(RegexOf(redirects[1].pattern), url)
    IN  /\ ~probe.called
        /\ probe' = [called |-> TRUE, url |-> url,
                     groups |-> IF m.ok THEN Some(m.groups) ELSE Null,
                     substituted |-> MatchRule(redirects[1], url),
                     target |-> Matcher(redirects[1], url)]
        /\ UNCHANGED <<pagesRootOpt, redirectsOpt, files, req, env, bundle>>

MatchNext == CallMatcher

MatchSpec == MatchInit /\ [][MatchNext]_vars

(***************************************************************************)
(* One build: generateBundle runs once, after the bundle is rendered.      *)
(***************************************************************************)
OutputNames == {<<"i", "n", "d", "e", "x", ".", "h", "t", "m", "l">>,
                <<"a", "s", "s", "e", "t", "s", "/", "m", ".", "j", "s">>,
                <<"s", "r", "c", "/", "p", "a", "g", "e", "s", "/", "c", ".", "h", "t", "m", "l">>,
                <<"s", "r", "c", "/", "p", "a", "g", "e", "s", "/", "c", "/", "i", "n", "d", "e", "x", ".", "h", "t", "m", "l">>,
                <<"s", "r", "c", "/", "p", "a", "g", "e", "s", "x", ".", "h", "t", "m", "l">>,
                <<"p", "g", "/", "c", ".", "h", "t", "m", "l">>,
                <<"s", "r", "c", "/", "p", "a", "g", "e", "s", "/", "s", "r", "c", "/", "p", "a", "g", "e", "s", "/", "c", ".", "h", "t", "m", "l">>}

OutputFiles == [key : OutputNames, type : {"asset", "chunk"}]

\* a bundle holds one entry per file name
Bundles ==
    {b \in SUBSET OutputFiles :
        /\ Cardinality(b) <= MaxBundle
        /\ \A f, g \in b : f.key = g.key => f = g}

BuildInit ==
    /\ pagesRootOpt \in PagesRootOptions \cup {Some(<<"s", "r", "c", "/", "p", "a", "g", "e", "s", "/">>)}
    /\ redirectsOpt = <<>>
    /\ files = {}
    /\ req = Idle
    /\ probe = NoProbe
    /\ env \in {"client", "ssr"}
    /\ \E b \in Bundles :
           bundle = [pc |-> "rendered",
                     files |-> {[key |-> f.key, type |-> f.type,
                                 fileName |-> f.key] : f \in b}]

generateBundle ==
    /\ bundle.pc = "rendered"
    /\ bundle' = [pc |-> "generated",
                  files |-> IF env # "client" THEN bundle.files
                            ELSE {[f EXCEPT !.fileName = FlattenedName(f)] :
                                     f \in bundle.files}]
    /\ UNCHANGED <<pagesRootOpt, redirectsOpt, files, req, probe, env>>

BuildNext == generateBundle

BuildSpec == BuildInit /\ [][BuildNext]_vars

(***************************************************************************)
(* Properties of the router.                                               *)
(***************************************************************************)
\* the handled request's input
In == req.in[1]

\* the part of a raw request URL before its first "?"
PathPart(raw) == Take(raw, FirstOf(raw, {"?"}) - 1)

IsDocument == req.st = "done" /\ In.dest = Some("document")

IsSubResource ==
    /\ req.st = "done"
    /\ In.dest # Null
    /\ In.dest # Some("document")
    /\ In.referer # Null
    /\ In.referer[1] # <<>>
    /\ ~StartsWith(PathPart(In.url), VitePrefix)

\* out is the path to, alone or followed by a query
RewrittenTo(out, to) ==
    /\ StartsWith(out, to)
    /\ (Len(out) = Len(to) \/ out[Len(to) + 1] = "?")

\* the file the Page Resolver probes for a candidate PageURL
ProbedFile(candidate) ==
    PosixNormalize(root \o candidate
                   \o (IF EndsWith(candidate, <<"/">>) THEN IndexHtml
                       ELSE DotHtml))

\* the entries of redirects whose matcher accepts path
Matching(path) ==
    {i \in 1..Len(redirects) : Matcher(redirects[i], path) # Null}

\* the first of them
FirstMatching(path) ==
    CHOOSE i \in Matching(path) : \A j \in Matching(path) : i <= j

\* C1: a document request is rewritten to the Redirect Resolver's PageURL
\* when there is one, and then the Page Resolver is not consulted on the
\* request path; otherwise to the Page Resolver's PageURL when there is one;
\* otherwise it is left untouched.  It is forwarded in all three cases.
C1_DocumentRouting ==
    IsDocument =>
        /\ req.nexts = 1
        /\ ~req.threw
        /\ IF resolveRedirect(PathPart(In.url)) # Null
           THEN /\ RewrittenTo(req.url, resolveRedirect(PathPart(In.url))[1])
                /\ ~req.directLookup
           ELSE IF resolvePageUrl(PathPart(In.url)) # Null
           THEN RewrittenTo(req.url, resolvePageUrl(PathPart(In.url))[1])
           ELSE req.url = In.url

\* a document request both resolvers answer, differently
C1_Witness ==
    /\ IsDocument
    /\ resolveRedirect(PathPart(In.url)) # Null
    /\ resolvePageUrl(PathPart(In.url)) # Null
    /\ resolveRedirect(PathPart(In.url)) # resolvePageUrl(PathPart(In.url))
    /\ RewrittenTo(req.url, resolveRedirect(PathPart(In.url))[1])

\* C2: the first rule, in declaration order, whose matcher accepts the path
\* decides the Redirect Resolver's result: the result is the page lookup of
\* that rule's target (nothing when that page is not on disk) and no later
\* rule is consulted.
C2_FirstMatchWins ==
    (req.st = "done" /\ req.lookupPath # Null) =>
        IF Matching(req.lookupPath[1]) = {}
        THEN /\ req.redirectUrl = Null
             /\ req.consulted = [i \in 1..Len(redirects) |-> i]
        ELSE /\ req.redirectUrl =
                    resolvePageUrl(RedirectCandidate(
                        Matcher(redirects[FirstMatching(req.lookupPath[1])],
                                req.lookupPath[1])[1]))
             /\ req.consulted =
                    [i \in 1..FirstMatching(req.lookupPath[1]) |-> i]

\* rules A and B both accept the path, A's page is missing and B's is on disk
C2_Witness ==
    /\ req.st = "done"
    /\ req.lookupPath # Null
    /\ Cardinality(Matching(req.lookupPath[1])) >= 2
    /\ req.redirectUrl = Null
    /\ \E b \in Matching(req.lookupPath[1]) :
           /\ b # FirstMatching(req.lookupPath[1])
           /\ resolvePageUrl(RedirectCandidate(
                  Matcher(redirects[b], req.lookupPath[1])[1])) # Null

\* the referrer's PageURL: the Redirect Resolver's, else the Page Resolver's
ReferrerPage ==
    IF resolveRedirect(ParseURL(In.referer[1]).pathname) # Null
    THEN resolveRedirect(ParseURL(In.referer[1]).pathname)
    ELSE resolvePageUrl(ParseURL(In.referer[1]).pathname)

\* the referrer PageURL's directory followed by the request path
PageRelativeAsset ==
    SubSeq(ReferrerPage[1], 1, LastIndexOf(ReferrerPage[1], "/") - 1)
    \o PathPart(In.url)

C4_PageResolverFresh ==
    (req.st = "done" /\ req.directLookup) =>
        req.pageUrl =
            IF existsSync(ProbedFile(<<"/">> \o pagesRoot \o req.lookupPath[1]))
            THEN Some(<<"/">> \o pagesRoot \o req.lookupPath[1])
            ELSE Null

\* a directory page found through its index.html
C4_Witness ==
    /\ req.st = "done"
    /\ req.directLookup
    /\ EndsWith(req.lookupPath[1], <<"/">>)
    /\ req.pageUrl = Some(<<"/">> \o pagesRoot \o req.lookupPath[1])
    /\ ProbedFile(req.pageUrl[1]) \in files

\* the target of the first matching rule, captures substituted
FirstTarget == 
    Matcher(redirects[FirstMatching(req.lookupPath[1])], req.lookupPath[1])[1]

\* a rule matched and its substituted target holds query text
HasQueryTarget ==
    /\ req.st = "done"
    /\ req.lookupPath # Null
    /\ Matching(req.lookupPath[1]) # {}
    /\ IndexOf(FirstTarget, "?") # 0
    /\ StartsWith(FirstTarget, <<"/">>)
    /\ ~EndsWith(FirstTarget, DotHtml)

\* C5 as amended: when the substituted target holds query text, the page
\* lookup is applied to the whole target, query text included: the redirect
\* resolves exactly when <pagesRoot>/<target>.html (for /up?id=42, the file
\* up?id=42.html) exists, and its result is "/" + pagesRoot + target.
C5_QueryTargetWhole ==
    HasQueryTarget =>
        req.redirectUrl =
            IF existsSync(ProbedFile(<<"/">> \o pagesRoot \o FirstTarget))
            THEN Some(<<"/">> \o pagesRoot \o FirstTarget)
            ELSE Null

\* the redirect resolves through the file named with the query text
C5_Witness ==
    /\ HasQueryTarget
    /\ req.redirectUrl # Null
    /\ ProbedFile(<<"/">> \o pagesRoot \o FirstTarget) \in files

\* C5 as stated: the lookup is applied to the path portion before the query
\* text, so the redirect resolves whenever that page exists.
C5_Original ==
    HasQueryTarget =>
        (existsSync(ProbedFile(<<"/">> \o pagesRoot \o PathPart(FirstTarget)))
            => req.redirectUrl # Null)

\* C7: the router never fails: every request is forwarded to the next
\* handler exactly once, and with its path unmodified when nothing resolved.
C7_Original ==
    req.st = "done" =>
        /\ ~req.threw
        /\ req.nexts = 1
        /\ (req.redirectUrl = Null /\ req.pageUrl = Null /\ req.assetUrl = Null)
               => req.url = In.url

\* the path a rewritten request was rewritten to
NewPath ==
    IF req.assetUrl # Null THEN req.assetUrl[1]
    ELSE IF req.redirectUrl # Null THEN req.redirectUrl[1]
    ELSE req.pageUrl[1]

\* C8: a rewritten request keeps the original query string: the new path
\* followed by "?" and everything after the first "?" of the original, and
\* no query part when the original had none.
C8_Original ==
    (req.st = "done" /\ req.originalUrlDeleted) =>
        req.url =
            IF IndexOf(In.url, "?") = 0 THEN NewPath
            ELSE NewPath \o <<"?">> \o Drop(In.url, IndexOf(In.url, "?"))

(***************************************************************************)
(* Properties of the compiled patterns.                                    *)
(***************************************************************************)
\* the pattern read as the documentation reads it: "*" is any run of
\* characters, ":name" a run of at least minRun characters other than "/",
\* every other character itself; the whole path is matched
RECURSIVE Accepts(_, _, _)
Accepts(pat, path, minRun) ==
    IF pat = <<>> THEN path = <<>>
    ELSE IF pat[1] = "*"
    THEN \E k \in 0..Len(path) : Accepts(Tail(pat), Drop(path, k), minRun)
    ELSE IF pat[1] = ":" /\ Len(pat) >= 2 /\ IsIdentStart(pat[2])
    THEN \E k \in minRun..Len(path) :
             /\ \A i \in 1..k : path[i] # "/"
             /\ Accepts(Drop(pat, 1 + WordRun(pat, 2)), Drop(path, k), minRun)
    ELSE /\ path # <<>>
         /\ path[1] = pat[1]
         /\ Accepts(Tail(pat), Tail(path), minRun)

\* C9 as amended: a compiled pattern accepts a path exactly when the whole
\* path matches the pattern read as: "*" any run of characters, ":name" any
\* non-empty run of characters other than "/", every other character itself.
C9_WholePathMatch ==
    probe.called =>
        (probe.target # Null <=> Accepts(redirects[1].pattern, probe.url, 1))

\* an accepted path, for a pattern with a placeholder and a literal "."
C9_Witness ==
    /\ probe.called
    /\ probe.target # Null
    /\ \E i \in 1..Len(redirects[1].pattern) : redirects[1].pattern[i] = "."
    /\ \E i \in 1..Len(redirects[1].pattern) :
           redirects[1].pattern[i] = ":" /\ TokenAt(redirects[1].pattern, i)

\* C9 as stated: ":name" matches any run of characters other than "/", the
\* empty run included.
C9_Original ==
    probe.called =>
        (probe.target # Null <=> Accepts(redirects[1].pattern, probe.url, 0))

\* the template with every whole ":name" token of a captured name replaced
\* by the captured value, in one pass
RECURSIVE TemplateSubst(_, _)
TemplateSubst(t, groups) ==
    IF t = <<>> THEN <<>>
    ELSE IF t[1] = ":" /\ Len(t) >= 2 /\ IsIdentStart(t[2])
    THEN LET name == SubSeq(t, 2, 1 + WordRun(t, 2))
             hits == SelectSeq(groups, LAMBDA g : g.name = name)
         IN  (IF hits # <<>> THEN hits[1].value ELSE <<":">> \o name)
             \o TemplateSubst(Drop(t, 1 + Len(name)), groups)
    ELSE <<t[1]>> \o TemplateSubst(Tail(t), groups)

\* C10: the derived target is the template with every whole ":name" token
\* replaced by the captured value and nothing else changed: captured text is
\* never itself replaced by another capture.
C10_Original ==
    (probe.called /\ probe.groups # Null) =>
        probe.substituted = Some(TemplateSubst(redirects[1].target,
                                               probe.groups[1]))

(***************************************************************************)
(* Properties of the build.                                                *)
(***************************************************************************)
Flattened == bundle.pc = "generated" /\ env = "client"

\* C6 as amended: after a client build's generateBundle, every output of
\* type asset whose path began with pagesRoot + "/" has lost exactly that
\* prefix, and every other output (a chunk, or a path outside the pages
\* root) keeps its path.
C6_AssetsFlattened ==
    Flattened =>
        \A f \in bundle.files :
            IF f.type = "asset" /\ StartsWith(f.key, pagesRoot \o <<"/">>)
            THEN /\ pagesRoot \o <<"/">> \o f.fileName = f.key
                 /\ Len(f.fileName) = Len(f.key) - (Len(pagesRoot) + 1)
            ELSE f.fileName = f.key

\* an asset moved to the root, next to an output that stayed
C6_Witness ==
    /\ Flattened
    /\ \E f \in bundle.files : f.type = "asset" /\ f.fileName # f.key
    /\ \E f \in bundle.files : f.fileName = f.key

\* C6 as stated: every output file under pagesRoot + "/" loses the prefix,
\* whatever its type.
C6_Original ==
    Flattened =>
        \A f \in bundle.files :
            IF StartsWith(f.key, pagesRoot \o <<"/">>)
            THEN pagesRoot \o <<"/">> \o f.fileName = f.key
            ELSE f.fileName = f.key

=============================================================================
